---- MODULE Spec2Model ----
(***************************************************************************)
(* A model of src/maven.py and of its callers in src/updater.py:           *)
(*   - the Maven model builder, Model.__init__ and its helpers (_merge,    *)
(*     _merge_deps, _merge_props, _is_active_profile, _evaluate,           *)
(*     _propvalue), driven through SimpleResolver.dependencies (Spec,      *)
(*     SpecEval);                                                          *)
(*   - retrieval, Artifact.resolve and SimpleResolver.download, for one    *)
(*     caller (SpecRetrieval) and for two callers that share the cache     *)
(*     (SpecConcurrent);                                                   *)
(*     a build followed to its end under fairness is SpecLive;             *)
(*   - coord2str and the coordinate parser of updater.main (SpecCoord);    *)
(*   - equality and hashing of Project, Component, Artifact and            *)
(*     Dependency (SpecEq);                                                *)
(*   - XML.element and XML.value (SpecXml), Metadatas (SpecMd);            *)
(*   - updater.FilesCollection (SpecFiles).                                *)
(*                                                                         *)
(* Strings that may hold ${name} expressions are sequences of tokens: a    *)
(* token is <<"lit", c>> (one literal character) or <<"ref", name>> (the   *)
(* text ${name}).  A Python dict is a sequence of <<key, value>> pairs in  *)
(* insertion order.  Python's None, where a string is expected, is the     *)
(* one-token sequence None.                                                *)
(***************************************************************************)
EXTENDS Integers, Sequences, FiniteSets, TLC

VARIABLES
    repo,       \* the files of env.repo_cache: a function from (g, a, v) to the descriptor stored there
    hashOrder,  \* the iteration order of a Python set of str in this process (fixed by the hash seed)
    pc,         \* position of the running SimpleResolver.dependencies / Model.__init__ call
    target,     \* the (g, a, v) of the component whose dependencies are asked for
    pom,        \* the POM handed to Model.__init__
    deps,       \* Model.deps
    dep_mgmt,   \* Model.dep_mgmt
    props,      \* Model.props
    result,     \* outcome of the call: "none" while running, "ok", or the exception raised
    phases,     \* the phases of Model.__init__ entered during the call, in order
    lookups,    \* the (g, a, v) of every descriptor resolved through Component.pom() during the call
    eprops,     \* evaluator harness: the props dict handed to _evaluate / _propvalue
    ecall,      \* evaluator harness: the last call made, <<function, argument>>
    eout,       \* evaluator harness: what the last call returned or raised
    fs,         \* the files under the cache and the storage roots: path -> contents
    dirs,       \* the artifacts whose directory exists under the cache root
    local_repos,  \* Environment.local_repos
    remote_repos, \* Environment.remote_repos, a dict name -> URL
    server,     \* the status code each remote answers with
    rpc,        \* per caller: position in Artifact.resolve / SimpleResolver.download
    rart,       \* per caller: the artifact being resolved
    ri,         \* per caller: index of the running for loop
    rresp,      \* per caller: the response of the last requests.get
    rret,       \* per caller: the path returned or the exception raised, once the call is over
    rcontacted, \* per caller: the URLs requested during the call, in order
    rfs0,       \* per caller: the files as they were when the call began
    roundtrip,  \* coordinate harness: two coordinates, their renderings, and the first one parsed back
    eqcheck,    \* comparison harness: two coordinate values, x == y and their hashes
    xmlcheck,   \* XML harness: a document, a path, and what element(path) or value(path) gave
    mdcheck,    \* metadata harness: the documents passed to Metadatas(...) and its versions
    artifacts,  \* FilesCollection.artifacts
    current,    \* FilesCollection.current
    components, \* FilesCollection.components
    fcall,      \* the last call made on the FilesCollection, with its outcome
    disk        \* what the FilesCollection finds on disk: maven-metadata.xml documents, POMs

retrievalVars ==
    <<fs, dirs, local_repos, remote_repos, server, rpc, rart, ri, rresp, rret, rcontacted, rfs0>>

filesVars == <<artifacts, current, components, fcall, disk>>

harnessVars == <<roundtrip, eqcheck, xmlcheck, mdcheck, filesVars>>

vars == <<repo, hashOrder, pc, target, pom, deps, dep_mgmt, props, result, phases, lookups, eprops, ecall, eout,
          retrievalVars, harnessVars>>

buildVars == <<pc, target, pom, deps, dep_mgmt, props, result, phases, lookups>>

evalVars == <<eprops, ecall, eout>>

----------------------------------------------------------------------------
(* Constants of src/maven.py *)

DEFAULT_CLASSIFIER == ""

DEFAULT_PACKAGING == "jar"

DEFAULT_SCOPE == "compile"

----------------------------------------------------------------------------
(* Strings with ${...} expressions *)

Lit(c) == <<"lit", c>>

Ref(n) == <<"ref", n>>

None == << <<"none", "">> >>

IsNone(s) == s = None

\* the names n with ${n} in the expression: set(findall("\\${([^}]*)}", expression))
props_referenced(expression) ==
    { expression[i][2] : i \in { j \in DOMAIN expression : expression[j][1] = "ref" } }

RECURSIVE str_replace(_, _, _)
\* value.replace("${" + name + "}", replacement): every occurrence is replaced
str_replace(value, name, replacement) ==
    IF value = <<>> THEN <<>>
    ELSE IF Head(value) = Ref(name)
         THEN replacement \o str_replace(Tail(value), name, replacement)
         ELSE <<Head(value)>> \o str_replace(Tail(value), name, replacement)

----------------------------------------------------------------------------
(* Python dicts, in insertion order *)

Keys(d) == { d[i][1] : i \in DOMAIN d }

Has(d, k) == k \in Keys(d)

Get(d, k) == d[CHOOSE i \in DOMAIN d : d[i][1] = k][2]

\* d[k] = v: a present key keeps its position, a new key is appended
Put(d, k, v) ==
    IF Has(d, k)
    THEN [i \in DOMAIN d |-> IF d[i][1] = k THEN <<k, v>> ELSE d[i]]
    ELSE Append(d, <<k, v>>)

Values(d) == [i \in DOMAIN d |-> d[i][2]]

----------------------------------------------------------------------------
(* Model._evaluate and Model._propvalue.                                    *)
(* `visited` is Python's Optional[Set[str]]: [none |-> TRUE] is None.  The  *)
(* set is a mutable object shared by every call it is passed to, so each    *)
(* operator returns the set as it is after the call, next to the props      *)
(* dict, which _propvalue mutates as well.  A result is                     *)
(*   [val, props, visited, err]: val is the returned string or None, err    *)
(* is "" or the exception raised.                                           *)

NoVisited == [none |-> TRUE, names |-> {}]

Visited(S) == [none |-> FALSE, names |-> S]

InterpolationCycle == "ValueError: Infinite reference loop for property"

Ret(val, p, visited) == [val |-> val, props |-> p, visited |-> visited, err |-> ""]

Raise(e, p, visited) == [val |-> None, props |-> p, visited |-> visited, err |-> e]

\* the order in which `for prop_reference in props_referenced` yields a set's elements
set_iteration(S, order) == SelectSeq(order, LAMBDA n : n \in S)

RECURSIVE _evaluate(_, _, _, _), _evaluate_loop(_, _, _, _, _), _propvalue(_, _, _, _)

_propvalue(propname, p, visited, order) ==
    LET vis == IF visited.none THEN {} ELSE visited.names
    IN  IF propname \in vis
        THEN Raise(InterpolationCycle, p, Visited(vis))
        ELSE LET vis2 == Visited(vis \cup {propname})
             IN  IF ~Has(p, propname) \/ IsNone(Get(p, propname))
                 THEN Ret(None, p, vis2)
                 ELSE LET r == _evaluate(Get(p, propname), p, vis2, order)
                      IN  IF r.err # "" THEN r
                          ELSE Ret(r.val, Put(r.props, propname, r.val), r.visited)

\* the body of `for prop_reference in props_referenced`, over the references still to do
_evaluate_loop(todo, value, p, visited, order) ==
    IF todo = <<>> THEN Ret(value, p, visited)
    ELSE LET r == _propvalue(Head(todo), p, visited, order)
             \* a callee given None made its own set; a callee given a set added to that set
             after == IF visited.none THEN visited ELSE r.visited
         IN  IF r.err # "" THEN Raise(r.err, r.props, after)
             ELSE IF IsNone(r.val)
                  THEN _evaluate_loop(Tail(todo), value, r.props, after, order)
                  ELSE _evaluate_loop(Tail(todo), str_replace(value, Head(todo), r.val),
                                      r.props, after, order)

_evaluate(expression, p, visited, order) ==
    IF props_referenced(expression) = {}
    THEN Ret(expression, p, visited)
    ELSE _evaluate_loop(set_iteration(props_referenced(expression), order),
                        expression, p, visited, order)

----------------------------------------------------------------------------
(* Descriptors (POM files) and the values read from them *)

\* a <dependency> element; an absent <classifier>, <type> or <scope> child is "",
\* an absent <version> child is None
El(g, a, v, c, t, s) ==
    [groupId |-> g, artifactId |-> a, version |-> v, classifier |-> c, type |-> t, scope |-> s]

\* Environment.dependency(el): the Dependency of a <dependency> element, defaults filled in
dependency(el) ==
    [groupId    |-> el.groupId,
     artifactId |-> el.artifactId,
     version    |-> el.version,
     classifier |-> IF el.classifier = "" THEN DEFAULT_CLASSIFIER ELSE el.classifier,
     type       |-> IF el.type = "" THEN DEFAULT_PACKAGING ELSE el.type,
     scope      |-> IF el.scope = "" THEN DEFAULT_SCOPE ELSE el.scope]

\* the key of Model.deps and Model.dep_mgmt
GACT(dep) == <<dep.groupId, dep.artifactId, dep.classifier, dep.type>>

\* Dependency.set_version
set_version(dep, version) == [dep EXCEPT !.version = version]

NoParent == <<"", "", "">>

\* a <profile> element: its <activation> (present or not, with its children as
\* <<tag, text>>), its dependencies, its managed dependencies, and its <properties>
\* element (present or not) with that element's own text and its children
Profile(hasActivation, conditions, ds, ms, hasProperties, text, children) ==
    [hasActivation |-> hasActivation, activation |-> conditions,
     dependencies |-> ds, managed |-> ms,
     hasProperties |-> hasProperties, propertiesText |-> text, properties |-> children]

\* a parsed POM: kind "POM" tells the object from the other Python objects the
\* builder handles
Pom(parent, properties, ds, ms, profiles) ==
    [kind |-> "POM", parent |-> parent, properties |-> properties,
     dependencies |-> ds, managed |-> ms, profiles |-> profiles]

\* the attribute pom.parent: POM.parent is a plain method, so the attribute is the
\* bound method object, whatever the descriptor holds
POM_parent_attr(p) == [kind |-> "method", self |-> p]

\* truth value of a Python object: None is false, a bound method is true
Truthy(obj) == obj.kind # "None"

RECURSIVE dict_of(_, _)
\* {el.tag: el.text for el in els}, added to the dict d: a repeated tag keeps its
\* first position and takes the last text
dict_of(els, d) ==
    IF els = <<>> THEN d ELSE dict_of(Tail(els), Put(d, Head(els)[1], Head(els)[2]))

\* POM.properties
POM_properties(p) == dict_of(p.properties, <<>>)

\* POM.dependencies(managed)
POM_dependencies(p, managed) ==
    LET els == IF managed THEN p.managed ELSE p.dependencies
    IN  [i \in DOMAIN els |-> dependency(els[i])]

----------------------------------------------------------------------------
(* Model: the merges *)

RECURSIVE _merge_deps(_, _)
\* Model._merge_deps on the dict `tgt` (self.deps or self.dep_mgmt)
_merge_deps(tgt, source) ==
    IF source = <<>> THEN tgt
    ELSE LET dep == Head(source)
             k == GACT(dep)
         IN  _merge_deps(IF Has(tgt, k) THEN tgt ELSE Append(tgt, <<k, dep>>), Tail(source))

RECURSIVE _merge_props(_, _)
\* Model._merge_props
_merge_props(p, source) ==
    IF source = <<>> THEN p
    ELSE LET k == Head(source)[1]
             v == Head(source)[2]
         IN  _merge_props(IF Has(p, k) THEN p ELSE Append(p, <<k, v>>), Tail(source))

\* the fields of a Model, with the exception its construction has raised ("" if none)
M(d, dm, p, e) == [deps |-> d, dep_mgmt |-> dm, props |-> p, err |-> e]

AttributeError == "AttributeError: 'function' object has no attribute 'dependencies'"

\* SimpleResolver.dependencies: `return list(model.deps.values())`
SimpleResolver_dependencies(m) == Values(m.deps)

\* Model._merge(obj): obj.dependencies() is looked up first, and only a POM has it
_merge(m, obj) ==
    IF obj.kind # "POM"
    THEN [m EXCEPT !.err = AttributeError]
    ELSE M(_merge_deps(m.deps, POM_dependencies(obj, FALSE)),
           _merge_deps(m.dep_mgmt, POM_dependencies(obj, TRUE)),
           _merge_props(m.props, POM_properties(obj)),
           m.err)

RECURSIVE active_by_default(_)
\* the loop of _is_active_profile over the children of <activation>
active_by_default(conditions) ==
    IF conditions = <<>> THEN FALSE
    ELSE IF Head(conditions)[1] = "activeByDefault" /\ Head(conditions)[2] = "true" THEN TRUE
         ELSE active_by_default(Tail(conditions))

\* _is_active_profile with any child of <activation> taken as sufficient
_is_active_profile_on_any_condition(profile) ==
    profile.hasActivation /\ profile.activation # <<>>

\* Model._is_active_profile
_is_active_profile(profile) ==
    IF ~profile.hasActivation THEN FALSE ELSE active_by_default(profile.activation)

\* the dict built from profile.findall("properties"): one entry per <properties>
\* element, its tag mapped to its own text
profile_props(profile) ==
    IF profile.hasProperties THEN << <<"properties", profile.propertiesText>> >> ELSE <<>>

RECURSIVE inject_profiles(_, _)
\* the profile loop of Model.__init__ over the active profiles
inject_profiles(m, profiles) ==
    IF profiles = <<>> THEN m
    ELSE LET profile == Head(profiles)
         IN  inject_profiles(
                 M(_merge_deps(m.deps, [i \in DOMAIN profile.dependencies |->
                                           dependency(profile.dependencies[i])]),
                   _merge_deps(m.dep_mgmt, [i \in DOMAIN profile.managed |->
                                               dependency(profile.managed[i])]),
                   _merge_props(m.props, profile_props(profile)),
                   m.err),
                 Tail(profiles))

active_profiles(p) == SelectSeq(p.profiles, _is_active_profile)

----------------------------------------------------------------------------
(* Model.__init__ after profile injection *)

RECURSIVE parent_loop(_, _)
\* `while parent: self._merge(parent); parent = parent.parent`
parent_loop(m, parent) ==
    IF ~Truthy(parent) THEN m
    ELSE LET merged == _merge(m, parent)
         IN  IF merged.err # "" THEN merged
             ELSE parent_loop(merged, POM_parent_attr(parent))

\* parent resolution and inheritance assembly: `parent = pom.parent`, then the loop
inherit_parents(m, p) == parent_loop(m, POM_parent_attr(p))

RECURSIVE interpolate_props_from(_, _, _)
\* `for k in self.props: Model._propvalue(k, self.props)`, from the i-th key on;
\* each call starts with visited=None
interpolate_props_from(p, i, order) ==
    IF i > Len(p) THEN Ret(None, p, NoVisited)
    ELSE LET r == _propvalue(p[i][1], p, NoVisited, order)
         IN  IF r.err # "" THEN r ELSE interpolate_props_from(r.props, i + 1, order)

RECURSIVE interpolate_versions_from(_, _, _, _)
\* the loop that evaluates the version of every entry of the dict d that has one,
\* from the i-th entry on; the result's val is unused, d is returned as `deps`
interpolate_versions_from(d, i, p, order) ==
    IF i > Len(d) THEN [deps |-> d, props |-> p, err |-> ""]
    ELSE IF IsNone(d[i][2].version)
         THEN interpolate_versions_from(d, i + 1, p, order)
         ELSE LET r == _evaluate(d[i][2].version, p, NoVisited, order)
              IN  IF r.err # "" THEN [deps |-> d, props |-> r.props, err |-> r.err]
                  ELSE interpolate_versions_from(
                           [d EXCEPT ![i] = <<d[i][1], set_version(d[i][2], r.val)>>],
                           i + 1, r.props, order)

\* the version loop over list(self.dep_mgmt.values()), after the one over deps (b)
interpolate_managed(m, b, order) ==
    IF b.err # "" THEN M(b.deps, m.dep_mgmt, b.props, b.err)
    ELSE M(b.deps,
           interpolate_versions_from(m.dep_mgmt, 1, b.props, order).deps,
           interpolate_versions_from(m.dep_mgmt, 1, b.props, order).props,
           interpolate_versions_from(m.dep_mgmt, 1, b.props, order).err)

\* the version loop over list(self.deps.values()), after the property loop (a)
interpolate_versions(m, a, order) ==
    IF a.err # "" THEN M(m.deps, m.dep_mgmt, a.props, a.err)
    ELSE interpolate_managed(m, interpolate_versions_from(m.deps, 1, a.props, order), order)

\* model interpolation: property values, then the versions of deps and of dep_mgmt
interpolate(m, order) ==
    interpolate_versions(m, interpolate_props_from(m.props, 1, order), order)

UnpackError == "ValueError: too many values to unpack (expected 2)"

\* dependency management import: `for k, dep in self.dep_mgmt` iterates the keys of
\* the dict, and the first key, a 4-tuple, does not unpack into (k, dep); the loop
\* body is never entered
import_boms(m) ==
    IF m.dep_mgmt = <<>> THEN m ELSE [m EXCEPT !.err = UnpackError]

\* dependency management injection: `for gacp, dep in self.deps` fails the same way
inject_managed(m) ==
    IF m.deps = <<>> THEN m ELSE [m EXCEPT !.err = UnpackError]

\* Model.__init__ after dependency management import (f): injection
after_import(f) == IF f.err # "" THEN f ELSE inject_managed(f)

\* Model.__init__ after model interpolation (e): import, then injection
after_interpolation(e) == IF e.err # "" THEN e ELSE after_import(import_boms(e))

\* Model.__init__ after parent inheritance (c): interpolation, import, injection
after_inheritance(c, order) ==
    IF c.err # "" THEN c ELSE after_interpolation(interpolate(c, order))

\* Model.__init__ from parent inheritance to its end; an exception ends it
build_from_parents(m, p, order) == after_inheritance(inherit_parents(m, p), order)

\* the phases entered after dependency management import (f)
phases_after_import(f) == IF f.err # "" THEN <<>> ELSE <<"G">>

\* the phases entered after the version loops (e), of which the one over deps and
\* dep_mgmt is entered if the property loop (d) raised nothing
phases_after_interpolation(d, e) ==
    (IF d.err # "" THEN <<>> ELSE <<"E">>)
    \o (IF e.err # "" THEN <<>> ELSE <<"F">> \o phases_after_import(import_boms(e)))

\* the phases entered after parent inheritance (c)
phases_after_inheritance(c, order) ==
    IF c.err # "" THEN <<>>
    ELSE <<"D">> \o phases_after_interpolation(interpolate_props_from(c.props, 1, order),
                                               interpolate(c, order))

\* the phases Model.__init__ enters from parent inheritance on: parent inheritance
\* (C), property interpolation (D), version interpolation (E), dependency
\* management import (F) and injection (G); an exception ends the constructor
phases_from_parents(m, p, order) ==
    <<"C">> \o phases_after_inheritance(inherit_parents(m, p), order)

----------------------------------------------------------------------------
(* The repositories and descriptors the builder is run on *)

V(c) == <<Lit(c)>>

ChildGav == <<"g", "child", "1">>

ParentGav == <<"g", "parent", "1">>

BomGav == <<"g", "bom", "1">>

Gavs == {ChildGav, ParentGav, BomGav}

FooBar(v) == El("foo", "bar", v, "", "", "")

LibX(v) == El("lib", "x", v, "", "", "")

BomEntry(t, s) == El("g", "bom", V("1"), "", t, s)

\* a profile that declares foo:bar:9, manages foo:bar:9 and sets p=9
ProfileWith(hasActivation, conditions) ==
    Profile(hasActivation, conditions, <<FooBar(V("9"))>>, <<FooBar(V("9"))>>,
            TRUE, None, << <<"p", V("9")>> >>)

ChildParents == {NoParent, ParentGav, ChildGav}

ChildProperties ==
    { <<>>,
      << <<"p", V("2")>> >>,
      << <<"p", <<Ref("u")>>>> >>,
      << <<"x", <<Ref("y")>>>>, <<"y", <<Ref("x")>>>> >> }

\* lib:x:1 at scope test
LibXTest == El("lib", "x", V("1"), "", "", "test")

\* the parent's artifact as a plain dependency
ParentAsDependency == El("g", "parent", V("1"), "", "", "")

ChildDependencies ==
    { <<>>, <<FooBar(None)>>, <<FooBar(<<Ref("p")>>)>>, <<FooBar(V("1"))>>, <<LibX(None)>>,
      <<FooBar(V("1")), LibXTest>>,
      <<ParentAsDependency, FooBar(V("1"))>> }

ChildManaged ==
    { <<>>, <<FooBar(V("1"))>>,
      <<BomEntry("pom", "import")>>, <<BomEntry("pom", "")>>,
      <<BomEntry("", "import")>>, <<BomEntry("", "")>> }

\* a profile that declares foo:bar:c, manages foo:bar:c and sets p=c
ProfileOf(c, hasActivation, conditions) ==
    Profile(hasActivation, conditions, <<FooBar(V(c))>>, <<FooBar(V(c))>>,
            TRUE, None, << <<"p", V(c)>> >>)

\* <activation> with conditions of the other kinds only
OtherConditions == << <<"os", "">>, <<"property", "">>, <<"file", "">> >>

ChildProfiles ==
    { <<>>,
      <<ProfileWith(TRUE, << <<"activeByDefault", "true">> >>)>>,
      <<ProfileWith(TRUE, << <<"jdk", "17">> >>)>>,
      <<ProfileOf("8", FALSE, <<>>)>>,
      <<ProfileOf("8", TRUE, <<>>)>>,
      <<ProfileOf("8", TRUE, << <<"activeByDefault", "false">> >>)>>,
      <<ProfileOf("8", TRUE, OtherConditions)>>,
      <<ProfileOf("8", TRUE, << <<"jdk", "17">>, <<"activeByDefault", "false">> >>),
        ProfileWith(TRUE, << <<"jdk", "17">>, <<"activeByDefault", "true">> >>)>> }

\* the parent sets p=1 and manages foo:bar at ${p}; its own parent is absent or the child
ParentPoms ==
    { Pom(par, << <<"p", V("1")>> >>, <<>>, <<FooBar(<<Ref("p")>>)>>, <<>>) :
        par \in {NoParent, ChildGav} }
    \cup { Pom(NoParent, <<>>, <<FooBar(V("2")), LibX(V("1"))>>, <<>>, <<>>) }

\* the import of the child's descriptor as a BOM
ChildEntry == El("g", "child", V("1"), "", "pom", "import")

\* the BOM sets p=9 and manages lib:x at ${p}; or it imports itself and the child
BomPoms ==
    { Pom(NoParent, << <<"p", V("9")>> >>, <<>>, <<LibX(<<Ref("p")>>)>>, <<>>),
      Pom(NoParent, <<>>, <<>>, <<BomEntry("pom", "import"), ChildEntry>>, <<>>) }

\* no file at that path of the cache
Absent == [kind |-> "absent"]

NoPom == [kind |-> "None"]

NoGav == <<"", "", "">>

\* the order of the property names used where the builder iterates a set
BuildOrder == <<"p", "u", "x", "y", "properties">>

----------------------------------------------------------------------------
(* Retrieval: Artifact.resolve and SimpleResolver.download.                 *)
(* A version is the sequence of its "-"-separated segments.  A file path is *)
(* <<root, artifact>>: the artifact's path prefix and filename under a      *)
(* repository root.  A URL is <<base, artifact>>.                           *)

Artifact(version) ==
    [groupId |-> "g", artifactId |-> "a", version |-> version,
     classifier |-> DEFAULT_CLASSIFIER, packaging |-> DEFAULT_PACKAGING]

\* Environment.repo_cache
repo_cache == "m2"

Path(root, artifact) == <<root, artifact>>

\* Artifact.cached_path
cached_path(artifact) == Path(repo_cache, artifact)

\* contents of a path: no file there; a file just created; a file that was there
\* before; or the body a remote has served
NoFile == "ENOENT"

Empty == ""

Stored == "bytes on disk"

\* Path.exists() answered False for every path
exists_never(files, path) == FALSE

\* Path.exists()
exists(files, path) == files[path] # NoFile

\* artifact.version.endswith("-SNAPSHOT") answered False for every version
endswith_SNAPSHOT_never(version) == FALSE

\* artifact.version.endswith("-SNAPSHOT")
endswith_SNAPSHOT(version) ==
    Len(version) >= 2 /\ version[Len(version)] = "SNAPSHOT"

\* the strings requests accepts as the start of a URL
WithScheme == {"https://a", "https://b"}

MissingSchema == "requests.exceptions.MissingSchema: Invalid URL: No scheme supplied"

\* requests.get(url) against the remotes as they answer now
requests_get(srv, url) ==
    IF url[1] \notin WithScheme
    THEN [err |-> MissingSchema, status_code |-> 0, content |-> Empty]
    ELSE [err |-> "", status_code |-> srv[url[1]], content |-> url[1]]

SnapshotUnsupported == "RuntimeError: Downloading of snapshots is not yet implemented."

AssertionError == "AssertionError"

FileNotFoundError == "FileNotFoundError"

\* the file download() opens for writing, were it a file of the first storage root
download_target_in_storage(artifact) == Path("nexus1", artifact)

\* the file download() opens for writing
download_target(artifact) == cached_path(artifact)

\* `cached_file and cached_file.exists()` with the cache never consulted
cache_hit_never(files, artifact) == FALSE

\* `cached_file and cached_file.exists()` of Artifact.resolve
cache_hit(files, artifact) == exists(files, cached_path(artifact))

\* the callers
Procs == {1, 2}

Release == <<"1">>

Snapshot == <<"1", "SNAPSHOT">>

\* a second release of the same project
Release2 == <<"2">>

Versions == {Release, Release2, Snapshot}

Artifacts == { Artifact(v) : v \in Versions }

Storage == {"nexus1", "nexus2"}

Roots == {repo_cache} \cup Storage

Paths == { Path(r, a) : r \in Roots, a \in Artifacts }

\* Environment.local_repos
LocalRepos == { <<>>, <<"nexus1">>, <<"nexus1", "nexus2">>, <<"nexus2", "nexus1">> }

\* Environment.remote_repos: name -> URL; a name may itself be a URL
RemoteRepos ==
    { <<>>,
      << <<"central", "https://a">> >>,
      << <<"https://a", "https://a">> >>,
      << <<"https://a", "https://a">>, <<"https://b", "https://b">> >>,
      << <<"https://b", "https://b">>, <<"https://a", "https://a">> >>,
      << <<"https://a", "https://a">>, <<"central", "https://b">> >> }

NoArtifact == [groupId |-> "", artifactId |-> "", version |-> <<>>,
               classifier |-> "", packaging |-> ""]

NoResponse == [err |-> "", status_code |-> 0, content |-> Empty]

NoPath == <<"", NoArtifact>>

\* the outcome of a call: the path returned, or the exception raised
Returned(path) == [err |-> "", path |-> path]

Raised(exception) == [err |-> exception, path |-> NoPath]

\* the call has not ended
NoOutcome == [err |-> "", path |-> NoPath]

\* no resolve is running and nothing is configured
NoRetrieval ==
    /\ fs = [path \in Paths |-> NoFile]
    /\ dirs = {}
    /\ local_repos = <<>>
    /\ remote_repos = <<>>
    /\ server = [base \in WithScheme |-> 404]
    /\ rpc = [p \in Procs |-> "idle"]
    /\ rart = [p \in Procs |-> NoArtifact]
    /\ ri = [p \in Procs |-> 0]
    /\ rresp = [p \in Procs |-> NoResponse]
    /\ rret = [p \in Procs |-> NoOutcome]
    /\ rcontacted = [p \in Procs |-> <<>>]
    /\ rfs0 = [p \in Procs |-> fs]

----------------------------------------------------------------------------
(* Coordinates as strings: coord2str and the parser of updater.main.         *)
(* A rendered string is the sequence of its ":"-separated fields, with the   *)
(* text that follows the last field.                                         *)

\* Python's None where a plain string is expected
NoString == "None"

\* truth value of an Optional[str]: None and "" are false
Given(x) == x # NoString /\ x # ""

Field(x) == IF Given(x) THEN <<x>> ELSE <<>>

\* coord2str
coord2str(groupId, artifactId, version, classifier, packaging, scope, optional) ==
    [fields |-> <<groupId, artifactId>> \o Field(packaging) \o Field(classifier)
                  \o Field(version) \o Field(scope),
     suffix |-> IF optional THEN " (optional)" ELSE ""]

\* coord.split(":"): the text after the last field stays in the last token
split(coord) ==
    [i \in DOMAIN coord.fields |->
        IF i = Len(coord.fields) /\ coord.suffix # ""
        THEN <<coord.fields[i], coord.suffix>> ELSE coord.fields[i]]

\* the attribute project.release, which main does not call
ReleaseMethod == "bound method Project.release"

\* updater.main: the artifact a coordinate argument names
main_artifact(coord) ==
    LET tokens == split(coord)
    IN  [groupId |-> tokens[1], artifactId |-> tokens[2],
         version |-> IF Len(tokens) > 2 THEN tokens[3] ELSE ReleaseMethod,
         classifier |-> DEFAULT_CLASSIFIER, packaging |-> DEFAULT_PACKAGING]

\* a coordinate: version, classifier, packaging and scope are each given or not
Coordinate(v, c, p, s) ==
    [groupId |-> "g", artifactId |-> "a", version |-> v, classifier |-> c,
     packaging |-> p, scope |-> s]

Coordinates ==
    { Coordinate(v, c, p, s) : v \in {NoString, "1"}, c \in {NoString, "sources"},
                               p \in {NoString, "jar", "pom"}, s \in {NoString, "compile"} }

NoCoordinate == Coordinate(NoString, NoString, NoString, NoString)

NoRendering == [fields |-> <<>>, suffix |-> ""]

\* the coordinate harness is not in use
NoRoundTrip ==
    roundtrip = [pc |-> "unused", coord |-> NoCoordinate, other |-> NoCoordinate,
                 rendered |-> NoRendering, renderedOther |-> NoRendering,
                 parsed |-> Artifact(<<>>)]

----------------------------------------------------------------------------
(* Coordinate values as Python objects: Project, Component, Artifact and     *)
(* Dependency.  `id` is the identity of the object, `env` the Environment    *)
(* the project was created from.  hash() of a tuple is the tuple of the      *)
(* hashes of its items; the default hash of an object is its identity.       *)

ProjectObject(id, env, groupId, artifactId) ==
    [class |-> "Project", id |-> id, env |-> env,
     groupId |-> groupId, artifactId |-> artifactId]

ComponentObject(id, project, version) ==
    [class |-> "Component", id |-> id, project |-> project, version |-> version]

ArtifactObject(id, component, classifier, packaging) ==
    [class |-> "Artifact", id |-> id, component |-> component,
     classifier |-> classifier, packaging |-> packaging]

DependencyObject(id, artifact, scope) ==
    [class |-> "Dependency", id |-> id, artifact |-> artifact, scope |-> scope]

\* object.__eq__ and object.__hash__, which a class without its own inherits
object___eq__(self, other) == self.id = other.id

object___hash__(self) == <<"object", self.id>>

Project___eq__(self, other) ==
    self.groupId = other.groupId /\ self.artifactId = other.artifactId

Project___hash__(self) == <<self.groupId, self.artifactId>>

Component___eq__(self, other) ==
    Project___eq__(self.project, other.project) /\ self.version = other.version

Component___hash__(self) == <<Project___hash__(self.project), self.version>>

Artifact___eq__(self, other) ==
    /\ Component___eq__(self.component, other.component)
    /\ self.classifier = other.classifier
    /\ self.packaging = other.packaging

Artifact___hash__(self) ==
    <<Component___hash__(self.component), self.classifier, self.packaging>>

\* class Dependency defines neither __eq__ nor __hash__
Dependency___eq__(self, other) == object___eq__(self, other)

Dependency___hash__(self) == object___hash__(self)

\* self == other for two values of one class
eq(self, other) ==
    CASE self.class = "Project" -> Project___eq__(self, other)
      [] self.class = "Component" -> Component___eq__(self, other)
      [] self.class = "Artifact" -> Artifact___eq__(self, other)
      [] self.class = "Dependency" -> Dependency___eq__(self, other)

\* hash(self)
hash(self) ==
    CASE self.class = "Project" -> Project___hash__(self)
      [] self.class = "Component" -> Component___hash__(self)
      [] self.class = "Artifact" -> Artifact___hash__(self)
      [] self.class = "Dependency" -> Dependency___hash__(self)

Classes == {"Project", "Component", "Artifact", "Dependency"}

\* the field values a coordinate value is built from
FieldValues ==
    [env : {"env1", "env2"}, artifactId : {"a", "b"}, version : {"1", "2"},
     classifier : {DEFAULT_CLASSIFIER, "sources"}, packaging : {DEFAULT_PACKAGING, "pom"},
     scope : {DEFAULT_SCOPE, "test"}]

\* a new value of the class, with the identity id, built from the field values f
NewValue(class, id, f) ==
    LET project == ProjectObject(id, f.env, "g", f.artifactId)
        component == ComponentObject(id, project, f.version)
        artifact == ArtifactObject(id, component, f.classifier, f.packaging)
    IN  CASE class = "Project" -> project
          [] class = "Component" -> component
          [] class = "Artifact" -> artifact
          [] class = "Dependency" -> DependencyObject(id, artifact, f.scope)

NoValue == [class |-> "None"]

\* the comparison harness is not in use
NoEqCheck ==
    eqcheck = [pc |-> "unused", x |-> NoValue, y |-> NoValue, fx |-> <<>>, fy |-> <<>>,
               eq |-> FALSE, hx |-> <<>>, hy |-> <<>>]

----------------------------------------------------------------------------
(* XML: a document is its root element; an element is [tag, text, children],  *)
(* text being NoString where the element has none.  A path is the sequence    *)
(* of its "/"-separated tags, relative to the root.                           *)

Leaf(tag, text) == [tag |-> tag, text |-> text, children |-> <<>>]

Node(tag, text, children) == [tag |-> tag, text |-> text, children |-> children]

NoElement == [tag |-> "None", text |-> NoString, children |-> <<>>]

\* a call's outcome: the element or the string returned, or the exception raised
XmlReturned(el, val) == [el |-> el, val |-> val, err |-> ""]

XmlRaised(exception) == [el |-> NoElement, val |-> NoString, err |-> exception]

\* the matches of the path under the children of el, in document order
RECURSIVE findall_children(_, _, _)
findall_children(children, path, i) ==
    IF i > Len(children) THEN <<>>
    ELSE (IF children[i].tag # Head(path) THEN <<>>
          ELSE IF Len(path) = 1 THEN <<children[i]>>
          ELSE findall_children(children[i].children, Tail(path), 1))
         \o findall_children(children, path, i + 1)

XML_elements(root, path) == findall_children(root.children, path, 1)

\* bool(el) of an ElementTree element: whether it has children
Element___bool__(el) == Len(el.children) # 0

XML_element(root, path) ==
    LET els == XML_elements(root, path)
    IN  IF ~(Len(els) <= 1) THEN XmlRaised(AssertionError)
        ELSE IF els # <<>> THEN XmlReturned(els[1], NoString)
        ELSE XmlReturned(NoElement, NoString)

XML_values(root, path) ==
    LET els == XML_elements(root, path)
    IN  [i \in DOMAIN els |-> els[i].text]

XML_value(root, path) ==
    LET el == XML_element(root, path)
    IN  IF el.err # "" THEN el
        ELSE IF el.el # NoElement /\ Element___bool__(el.el)
             THEN XmlReturned(NoElement, el.el.text)
             ELSE XmlReturned(NoElement, NoString)

\* the XML harness is not in use
NoXmlCheck ==
    xmlcheck = [pc |-> "unused", doc |-> NoElement, path |-> <<>>,
                out |-> XmlReturned(NoElement, NoString)]

----------------------------------------------------------------------------
(* maven-metadata.xml documents and their aggregate, Metadatas.  A datetime   *)
(* is the rank of its timestamp; None, as a sort key, is [none |-> TRUE].     *)

\* timestamps in the form of <lastUpdated>, in ascending order
Timestamps == <<"20210702144918", "20230706150124">>

ts2dt(ts) == CHOOSE i \in DOMAIN Timestamps : Timestamps[i] = ts

NoDatetime == [none |-> TRUE, dt |-> 0]

Datetime(dt) == [none |-> FALSE, dt |-> dt]

MetadataXML_groupId(doc) == XML_value(doc, <<"groupId">>)

MetadataXML_artifactId(doc) == XML_value(doc, <<"artifactId">>)

MetadataXML_lastUpdated(doc) ==
    LET value == XML_value(doc, <<"versioning", "lastUpdated">>).val
    IN  IF value # NoString THEN Datetime(ts2dt(value)) ELSE NoDatetime

MetadataXML_versions(doc) == XML_values(doc, <<"versioning", "versions", "version">>)

TypeError == "TypeError"

\* the list of [key, item] with x put after the last entry whose key is not above x's
RECURSIVE insort(_, _)
insort(list, x) ==
    IF list = <<>> THEN <<x>>
    ELSE IF list[Len(list)].key.dt <= x.key.dt THEN Append(list, x)
    ELSE Append(insort(SubSeq(list, 1, Len(list) - 1), x), list[Len(list)])

RECURSIVE sorted_upto(_, _)
sorted_upto(list, n) ==
    IF n = 0 THEN <<>> ELSE insort(sorted_upto(list, n - 1), list[n])

\* sorted(list, key=key): stable and ascending; the keys of a list of two or
\* more items are compared with <, which None does not support
\* (keys[i] is the key of list[i])
sorted(list, keys) ==
    LET keyed == [i \in DOMAIN list |-> [key |-> keys[i], item |-> list[i]]]
        ordered == sorted_upto(keyed, Len(keyed))
    IN  IF Len(list) >= 2 /\ \E i \in DOMAIN list : keyed[i].key.none
        THEN [list |-> <<>>, err |-> TypeError]
        ELSE [list |-> [i \in DOMAIN ordered |-> ordered[i].item], err |-> ""]

Metadatas___init__(metadatas) ==
    LET self == sorted(metadatas,
                       [i \in DOMAIN metadatas |-> MetadataXML_lastUpdated(metadatas[i])])
    IN  IF self.err # "" THEN self
        ELSE IF \E i, j \in DOMAIN self.list :
                    /\ i < j
                    /\ ~(/\ MetadataXML_groupId(self.list[i]) = MetadataXML_groupId(self.list[j])
                         /\ MetadataXML_artifactId(self.list[i]) = MetadataXML_artifactId(self.list[j]))
             THEN [list |-> <<>>, err |-> AssertionError]
             ELSE self

RECURSIVE Metadatas_versions_from(_, _)
Metadatas_versions_from(metadatas, i) ==
    IF i > Len(metadatas) THEN <<>>
    ELSE MetadataXML_versions(metadatas[i]) \o Metadatas_versions_from(metadatas, i + 1)

Metadatas_versions(metadatas) == Metadatas_versions_from(metadatas, 1)

\* the metadata harness is not in use
NoMdCheck ==
    mdcheck = [pc |-> "unused", docs |-> <<>>, metadatas |-> <<>>, err |-> "", versions |-> <<>>]

\* no FilesCollection has been made
NoFiles ==
    /\ artifacts = {}
    /\ current = {}
    /\ components = {}
    /\ fcall = [fn |-> "none", artifact |-> NoArtifact, current_version |-> FALSE, err |-> ""]
    /\ disk = [metadata |-> <<>>, poms |-> {}]

\* the harnesses other than the named one are not in use
OtherHarnessesUnused(used) ==
    /\ IF used = "roundtrip" THEN TRUE ELSE NoRoundTrip
    /\ IF used = "eqcheck" THEN TRUE ELSE NoEqCheck
    /\ IF used = "xmlcheck" THEN TRUE ELSE NoXmlCheck
    /\ IF used = "mdcheck" THEN TRUE ELSE NoMdCheck
    /\ IF used = "files" THEN TRUE ELSE NoFiles

----------------------------------------------------------------------------
(* SimpleResolver.dependencies(component): component.pom(), then Model(env, pom) *)

NotFound == "RuntimeError: Artifact not found in remote repositories"

Idle ==
    /\ pc = "idle" /\ target = NoGav /\ pom = NoPom
    /\ deps = <<>> /\ dep_mgmt = <<>> /\ props = <<>>
    /\ result = "none" /\ phases = <<>> /\ lookups = <<>>

NoEval ==
    /\ eprops = <<>>
    /\ ecall = [fn |-> "none", name |-> "", expr |-> <<>>, props |-> <<>>]
    /\ eout = [val |-> None, err |-> ""]

\* the cache holds the child's descriptor and, each present or not, the parent's and the BOM's
Init ==
    /\ \E par \in ChildParents, ps \in ChildProperties, ds \in ChildDependencies,
          ms \in ChildManaged, pfs \in ChildProfiles,
          parentPom \in ParentPoms \cup {Absent}, bomPom \in BomPoms \cup {Absent} :
            repo = [gav \in Gavs |-> IF gav = ChildGav THEN Pom(par, ps, ds, ms, pfs)
                                     ELSE IF gav = ParentGav THEN parentPom ELSE bomPom]
    /\ hashOrder = BuildOrder
    /\ Idle
    /\ NoEval
    /\ NoRetrieval
    /\ OtherHarnessesUnused("none")

\* component.pom(): Artifact.resolve finds the file in the cache, or, with no
\* read-only repository and no remote that serves it, download raises
ResolvePom(gav) ==
    /\ pc = "idle"
    /\ target' = gav
    /\ lookups' = Append(lookups, gav)
    /\ IF repo[gav].kind = "POM"
       THEN /\ pom' = repo[gav]
            /\ pc' = "A"
            /\ result' = result
       ELSE /\ pom' = pom
            /\ pc' = "done"
            /\ result' = NotFound
    /\ UNCHANGED <<retrievalVars, harnessVars, repo, hashOrder, deps, dep_mgmt, props, phases, eprops, ecall, eout>>

\* Model.__init__: the empty dicts and self._merge(pom)
Seed ==
    /\ pc = "A"
    /\ LET m == _merge(M(<<>>, <<>>, <<>>, ""), pom)
       IN  /\ deps' = m.deps
           /\ dep_mgmt' = m.dep_mgmt
           /\ props' = m.props
    /\ pc' = "B"
    /\ phases' = Append(phases, "A")
    /\ UNCHANGED <<retrievalVars, harnessVars, repo, hashOrder, target, pom, result, lookups, eprops, ecall, eout>>

\* Model.__init__: profile activation and injection
InjectProfiles ==
    /\ pc = "B"
    /\ LET m == inject_profiles(M(deps, dep_mgmt, props, ""), active_profiles(pom))
       IN  /\ deps' = m.deps
           /\ dep_mgmt' = m.dep_mgmt
           /\ props' = m.props
    /\ pc' = "C"
    /\ phases' = Append(phases, "B")
    /\ UNCHANGED <<retrievalVars, harnessVars, repo, hashOrder, target, pom, result, lookups, eprops, ecall, eout>>

\* `while parent:` going round on the descriptor itself without an end, as on a
\* parent chain that comes back to it
InheritWithoutEnd ==
    /\ pc = "C"
    /\ LET m == _merge(M(deps, dep_mgmt, props, ""), pom)
       IN  /\ deps' = m.deps
           /\ dep_mgmt' = m.dep_mgmt
           /\ props' = m.props
    /\ UNCHANGED <<retrievalVars, harnessVars, repo, hashOrder, pc, target, pom, result, phases, lookups, eprops, ecall, eout>>

\* Model.__init__: parent inheritance, interpolation, import and injection, to the
\* return of the constructor or to the exception that leaves it
InheritAndFinish ==
    /\ pc = "C"
    /\ LET m == build_from_parents(M(deps, dep_mgmt, props, ""), pom, hashOrder)
       IN  /\ deps' = m.deps
           /\ dep_mgmt' = m.dep_mgmt
           /\ props' = m.props
           /\ result' = IF m.err = "" THEN "ok" ELSE m.err
    /\ phases' = phases \o phases_from_parents(M(deps, dep_mgmt, props, ""), pom, hashOrder)
    /\ pc' = "done"
    /\ UNCHANGED <<retrievalVars, harnessVars, repo, hashOrder, target, pom, lookups, eprops, ecall, eout>>

\* the call is over; the caller may ask for another component
Return ==
    /\ pc = "done"
    /\ pc' = "idle" /\ target' = NoGav /\ pom' = NoPom
    /\ deps' = <<>> /\ dep_mgmt' = <<>> /\ props' = <<>>
    /\ result' = "none" /\ phases' = <<>> /\ lookups' = <<>>
    /\ UNCHANGED <<retrievalVars, harnessVars, repo, hashOrder, eprops, ecall, eout>>

Next ==
    \/ \E gav \in Gavs : ResolvePom(gav)
    \/ Seed
    \/ InjectProfiles
    \/ InheritAndFinish
    \/ Return

Spec == Init /\ [][Next]_vars

\* the cache holds descriptors that import each other: the child with or without a
\* parent and an import of the BOM, the BOM importing itself and the child
LiveInit ==
    /\ \E par \in ChildParents, ps \in ChildProperties, ms \in ChildManaged,
          parentPom \in ParentPoms \cup {Absent}, bomPom \in BomPoms \cup {Absent} :
            repo = [gav \in Gavs |-> IF gav = ChildGav THEN Pom(par, ps, <<>>, ms, <<>>)
                                     ELSE IF gav = ParentGav THEN parentPom ELSE bomPom]
    /\ hashOrder = BuildOrder
    /\ Idle
    /\ NoEval
    /\ NoRetrieval
    /\ OtherHarnessesUnused("none")

\* the constructor is sequential code: a call that has begun takes its next step
SpecLive ==
    /\ LiveInit /\ [][Next]_vars
    /\ WF_vars(Seed) /\ WF_vars(InjectProfiles) /\ WF_vars(InheritAndFinish)

----------------------------------------------------------------------------
(* Model._evaluate and Model._propvalue called on their own, as the static        *)
(* methods they are, on every small props dict                                    *)

\* the longest expression, in tokens, of the dicts and calls tried
MaxExprLen == 2

\* the names a dict may define, in the order it defines them
EvalKeys == <<"a", "b">>

\* a name no dict defines
Undefined == "u"

EvalNames == { EvalKeys[i] : i \in DOMAIN EvalKeys } \cup {Undefined}

EvalTokens == {Lit("1")} \cup { Ref(n) : n \in EvalNames }

EvalExprs == UNION { [1..k -> EvalTokens] : k \in 0..MaxExprLen }

\* the orders in which a set of these names can be iterated
EvalOrders ==
    { o \in [1..Cardinality(EvalNames) -> EvalNames] :
        { o[i] : i \in DOMAIN o } = EvalNames }

\* the dict that defines the keys of `present`, in the order of EvalKeys
EvalDict(present, value) ==
    LET keys == SelectSeq(EvalKeys, LAMBDA k : k \in present)
    IN  [i \in DOMAIN keys |-> <<keys[i], value[keys[i]]>>]

\* a=${b}${c}, b=${d}, c=${d}, d=1
Diamond ==
    <<<<"a", <<Ref("b"), Ref("c")>>>>, <<"b", <<Ref("d")>>>>,
      <<"c", <<Ref("d")>>>>, <<"d", <<Lit("1")>>>>>>

\* the orders in which the names of the diamond, and the undefined one, can be iterated
DiamondOrders ==
    LET names == Keys(Diamond) \cup {Undefined}
    IN  { o \in [1..Cardinality(names) -> names] : { o[i] : i \in DOMAIN o } = names }

EvalInit ==
    /\ \/ /\ \E present \in SUBSET { EvalKeys[i] : i \in DOMAIN EvalKeys } :
               \E value \in [present -> EvalExprs \ {<<>>}] :
                  eprops = EvalDict(present, value)
          /\ hashOrder \in EvalOrders
       \/ /\ eprops = Diamond
          /\ hashOrder \in DiamondOrders
    /\ ecall = [fn |-> "none", name |-> "", expr |-> <<>>, props |-> <<>>]
    /\ eout = [val |-> None, err |-> ""]
    /\ repo = [gav \in Gavs |-> Absent]
    /\ Idle
    /\ NoRetrieval
    /\ OtherHarnessesUnused("none")

\* Model._propvalue(name, props)
CallPropvalue(name) ==
    /\ LET r == _propvalue(name, eprops, NoVisited, hashOrder)
       IN  /\ eprops' = r.props
           /\ eout' = [val |-> r.val, err |-> r.err]
    /\ ecall' = [fn |-> "_propvalue", name |-> name, expr |-> <<>>, props |-> eprops]
    /\ UNCHANGED <<retrievalVars, harnessVars, repo, hashOrder, pc, target, pom, deps, dep_mgmt, props, result, phases, lookups>>

\* Model._evaluate(expression, props)
CallEvaluate(expression) ==
    /\ LET r == _evaluate(expression, eprops, NoVisited, hashOrder)
       IN  /\ eprops' = r.props
           /\ eout' = [val |-> r.val, err |-> r.err]
    /\ ecall' = [fn |-> "_evaluate", name |-> "", expr |-> expression, props |-> eprops]
    /\ UNCHANGED <<retrievalVars, harnessVars, repo, hashOrder, pc, target, pom, deps, dep_mgmt, props, result, phases, lookups>>

EvalNext ==
    \/ \E name \in EvalNames : CallPropvalue(name)
    \/ \E expression \in EvalExprs : CallEvaluate(expression)

SpecEval == EvalInit /\ [][EvalNext]_vars

----------------------------------------------------------------------------
(* Artifact.resolve and SimpleResolver.download, one step per filesystem or  *)
(* network operation of the caller p                                         *)

\* the repositories, the remotes and the files a resolve may find; a snapshot
\* version is in no repository under its plain name
RetrievalInit ==
    /\ \E inCache \in {"no directory", "directory", "file"}, inStorage \in SUBSET Storage :
         /\ fs = [path \in Paths |->
                    IF path[2].version # Release THEN NoFile
                    ELSE IF path[1] = repo_cache
                         THEN (IF inCache = "file" THEN Stored ELSE NoFile)
                         ELSE (IF path[1] \in inStorage THEN Stored ELSE NoFile)]
         /\ dirs \in (IF inCache = "no directory"
                      THEN {{}, {Artifact(Snapshot)}}
                      ELSE {{Artifact(Release)}, Artifacts})
    /\ local_repos \in LocalRepos
    /\ remote_repos \in RemoteRepos
    /\ server \in [WithScheme -> {200, 404}]
    /\ rpc = [p \in Procs |-> "idle"]
    /\ rart = [p \in Procs |-> NoArtifact]
    /\ ri = [p \in Procs |-> 0]
    /\ rresp = [p \in Procs |-> NoResponse]
    /\ rret = [p \in Procs |-> NoOutcome]
    /\ rcontacted = [p \in Procs |-> <<>>]
    /\ rfs0 = [p \in Procs |-> fs]
    /\ repo = [gav \in Gavs |-> Absent]
    /\ hashOrder = BuildOrder
    /\ Idle
    /\ NoEval
    /\ OtherHarnessesUnused("none")

\* the call of p is over, with the path returned or the exception raised
Finish(p, outcome) ==
    /\ rpc' = [rpc EXCEPT ![p] = "done"]
    /\ rret' = [rret EXCEPT ![p] = outcome]

\* artifact.resolve() is called
Resolve(p, artifact) ==
    /\ rpc[p] = "idle"
    /\ rpc' = [rpc EXCEPT ![p] = "cache"]
    /\ rart' = [rart EXCEPT ![p] = artifact]
    /\ rfs0' = [rfs0 EXCEPT ![p] = fs]
    /\ UNCHANGED <<fs, dirs, local_repos, remote_repos, server, ri, rresp, rret, rcontacted>>
    /\ UNCHANGED <<repo, hashOrder, buildVars, evalVars, harnessVars>>

\* resolve: the local repository cache
ResolveCache(p) ==
    /\ rpc[p] = "cache"
    /\ IF cache_hit(fs, rart[p])
       THEN Finish(p, Returned(cached_path(rart[p]))) /\ ri' = ri
       ELSE /\ rpc' = [rpc EXCEPT ![p] = "local"]
            /\ ri' = [ri EXCEPT ![p] = 1]
            /\ rret' = rret
    /\ UNCHANGED <<fs, dirs, local_repos, remote_repos, server, rart, rresp, rcontacted, rfs0>>
    /\ UNCHANGED <<repo, hashOrder, buildVars, evalVars, harnessVars>>

\* resolve: `for base in self.env.local_repos`, one base per step; past the last
\* one, self.env.resolver.download(self)
ResolveLocal(p) ==
    /\ rpc[p] = "local"
    /\ IF ri[p] > Len(local_repos)
       THEN /\ rpc' = [rpc EXCEPT ![p] = "download"]
            /\ UNCHANGED <<ri, rret>>
       ELSE IF exists(fs, Path(local_repos[ri[p]], rart[p]))
            THEN Finish(p, Returned(Path(local_repos[ri[p]], rart[p]))) /\ ri' = ri
            ELSE /\ ri' = [ri EXCEPT ![p] = ri[p] + 1]
                 /\ UNCHANGED <<rpc, rret>>
    /\ UNCHANGED <<fs, dirs, local_repos, remote_repos, server, rart, rresp, rcontacted, rfs0>>
    /\ UNCHANGED <<repo, hashOrder, buildVars, evalVars, harnessVars>>

\* download: the snapshot check
DownloadCheck(p) ==
    /\ rpc[p] = "download"
    /\ IF endswith_SNAPSHOT(rart[p].version)
       THEN Finish(p, Raised(SnapshotUnsupported)) /\ ri' = ri
       ELSE /\ rpc' = [rpc EXCEPT ![p] = "remote"]
            /\ ri' = [ri EXCEPT ![p] = 1]
            /\ rret' = rret
    /\ UNCHANGED <<fs, dirs, local_repos, remote_repos, server, rart, rresp, rcontacted, rfs0>>
    /\ UNCHANGED <<repo, hashOrder, buildVars, evalVars, harnessVars>>

\* download: `for remote_repo in artifact.env.remote_repos`, one requests.get per
\* step: iterating the dict yields its keys; past the last one, the RuntimeError
DownloadGet(p) ==
    /\ rpc[p] = "remote"
    /\ IF ri[p] > Len(remote_repos)
       THEN Finish(p, Raised(NotFound)) /\ UNCHANGED <<ri, rresp, rcontacted>>
       ELSE LET remote_repo == remote_repos[ri[p]][1]
                url == <<remote_repo, rart[p]>>
                response == requests_get(server, url)
            IN  /\ rcontacted' = [rcontacted EXCEPT ![p] = Append(@, url)]
                /\ rresp' = [rresp EXCEPT ![p] = response]
                /\ IF response.err # ""
                   THEN Finish(p, Raised(response.err)) /\ ri' = ri
                   ELSE IF response.status_code = 200
                        THEN /\ rpc' = [rpc EXCEPT ![p] = "assert"]
                             /\ UNCHANGED <<ri, rret>>
                        ELSE /\ ri' = [ri EXCEPT ![p] = ri[p] + 1]
                             /\ UNCHANGED <<rpc, rret>>
    /\ UNCHANGED <<fs, dirs, local_repos, remote_repos, server, rart, rfs0>>
    /\ UNCHANGED <<repo, hashOrder, buildVars, evalVars, harnessVars>>

\* download: `assert not cached_file.exists()`
DownloadAssert(p) ==
    /\ rpc[p] = "assert"
    /\ IF exists(fs, cached_path(rart[p]))
       THEN Finish(p, Raised(AssertionError))
       ELSE /\ rpc' = [rpc EXCEPT ![p] = "open"]
            /\ rret' = rret
    /\ UNCHANGED <<fs, dirs, local_repos, remote_repos, server, rart, ri, rresp, rcontacted, rfs0>>
    /\ UNCHANGED <<repo, hashOrder, buildVars, evalVars, harnessVars>>

\* download: open(cached_file, "wb") creates or truncates the file; its directory
\* must exist
DownloadOpen(p) ==
    /\ rpc[p] = "open"
    /\ IF download_target(rart[p])[1] = repo_cache /\ rart[p] \notin dirs
       THEN Finish(p, Raised(FileNotFoundError)) /\ fs' = fs
       ELSE /\ fs' = [fs EXCEPT ![download_target(rart[p])] = Empty]
            /\ rpc' = [rpc EXCEPT ![p] = "write"]
            /\ rret' = rret
    /\ UNCHANGED <<dirs, local_repos, remote_repos, server, rart, ri, rresp, rcontacted, rfs0>>
    /\ UNCHANGED <<repo, hashOrder, buildVars, evalVars, harnessVars>>

\* download: f.write(response.content), the end of the with block, and the return
DownloadWrite(p) ==
    /\ rpc[p] = "write"
    /\ fs' = [fs EXCEPT ![download_target(rart[p])] = rresp[p].content]
    /\ Finish(p, Returned(cached_path(rart[p])))
    /\ UNCHANGED <<dirs, local_repos, remote_repos, server, rart, ri, rresp, rcontacted, rfs0>>
    /\ UNCHANGED <<repo, hashOrder, buildVars, evalVars, harnessVars>>

\* the caller has the outcome and may resolve again
Resolved(p) ==
    /\ rpc[p] = "done"
    /\ rpc' = [rpc EXCEPT ![p] = "idle"]
    /\ rart' = [rart EXCEPT ![p] = NoArtifact]
    /\ ri' = [ri EXCEPT ![p] = 0]
    /\ rresp' = [rresp EXCEPT ![p] = NoResponse]
    /\ rret' = [rret EXCEPT ![p] = NoOutcome]
    /\ rcontacted' = [rcontacted EXCEPT ![p] = <<>>]
    /\ rfs0' = [rfs0 EXCEPT ![p] = fs]
    /\ UNCHANGED <<fs, dirs, local_repos, remote_repos, server>>
    /\ UNCHANGED <<repo, hashOrder, buildVars, evalVars, harnessVars>>

\* the steps of the caller p
Retrieval(p) ==
    \/ \E artifact \in Artifacts : Resolve(p, artifact)
    \/ ResolveCache(p)
    \/ ResolveLocal(p)
    \/ DownloadCheck(p)
    \/ DownloadGet(p)
    \/ DownloadAssert(p)
    \/ DownloadOpen(p)
    \/ DownloadWrite(p)
    \/ Resolved(p)

\* one caller: the library is synchronous and single-threaded
RetrievalNext == Retrieval(1)

SpecRetrieval == RetrievalInit /\ [][RetrievalNext]_vars

\* two callers that share the writable cache
ConcurrentNext == \E p \in Procs : Retrieval(p)

SpecConcurrent == RetrievalInit /\ [][ConcurrentNext]_vars

----------------------------------------------------------------------------
(* coord2str and the parser of updater.main run on every pair of coordinates *)

CoordInit ==
    /\ \E c \in Coordinates, o \in Coordinates :
         roundtrip = [pc |-> "start", coord |-> c, other |-> o,
                      rendered |-> NoRendering, renderedOther |-> NoRendering,
                      parsed |-> Artifact(<<>>)]
    /\ repo = [gav \in Gavs |-> Absent]
    /\ hashOrder = BuildOrder
    /\ Idle
    /\ NoEval
    /\ NoRetrieval
    /\ OtherHarnessesUnused("roundtrip")

Render(c) ==
    coord2str(c.groupId, c.artifactId, c.version, c.classifier, c.packaging, c.scope, FALSE)

\* str(...) of both coordinates
RenderBoth ==
    /\ roundtrip.pc = "start"
    /\ roundtrip' = [roundtrip EXCEPT !.pc = "rendered",
                                      !.rendered = Render(roundtrip.coord),
                                      !.renderedOther = Render(roundtrip.other)]
    /\ UNCHANGED <<retrievalVars, repo, hashOrder, buildVars, evalVars, eqcheck, xmlcheck, mdcheck, filesVars>>

\* updater.main on the rendering of the first coordinate
ParseBack ==
    /\ roundtrip.pc = "rendered"
    /\ roundtrip' = [roundtrip EXCEPT !.pc = "parsed",
                                      !.parsed = main_artifact(roundtrip.rendered)]
    /\ UNCHANGED <<retrievalVars, repo, hashOrder, buildVars, evalVars, eqcheck, xmlcheck, mdcheck, filesVars>>

CoordNext == RenderBoth \/ ParseBack

SpecCoord == CoordInit /\ [][CoordNext]_vars

----------------------------------------------------------------------------
(* Two coordinate values of one class are built and compared *)

EqInit ==
    /\ \E class \in Classes, fx \in FieldValues, fy \in FieldValues :
         eqcheck = [pc |-> "start", x |-> [class |-> class], y |-> [class |-> class],
                    fx |-> fx, fy |-> fy, eq |-> FALSE, hx |-> <<>>, hy |-> <<>>]
    /\ repo = [gav \in Gavs |-> Absent]
    /\ hashOrder = BuildOrder
    /\ Idle
    /\ NoEval
    /\ NoRetrieval
    /\ OtherHarnessesUnused("eqcheck")

\* the constructors: two objects, each from its own field values
Construct ==
    /\ eqcheck.pc = "start"
    /\ eqcheck' = [eqcheck EXCEPT !.pc = "built",
                                  !.x = NewValue(eqcheck.x.class, 1, eqcheck.fx),
                                  !.y = NewValue(eqcheck.y.class, 2, eqcheck.fy)]
    /\ UNCHANGED <<retrievalVars, repo, hashOrder, buildVars, evalVars, roundtrip, xmlcheck, mdcheck, filesVars>>

\* x == y, hash(x), hash(y)
Compare ==
    /\ eqcheck.pc = "built"
    /\ eqcheck' = [eqcheck EXCEPT !.pc = "compared",
                                  !.eq = eq(eqcheck.x, eqcheck.y),
                                  !.hx = hash(eqcheck.x),
                                  !.hy = hash(eqcheck.y)]
    /\ UNCHANGED <<retrievalVars, repo, hashOrder, buildVars, evalVars, roundtrip, xmlcheck, mdcheck, filesVars>>

EqNext == Construct \/ Compare

SpecEq == EqInit /\ [][EqNext]_vars

----------------------------------------------------------------------------
(* XML.element and XML.value on small documents *)

MaxChildren == 2

XmlElements ==
    {Leaf("groupId", "g"), Leaf("groupId", "h"), Leaf("groupId", NoString),
     Node("groupId", "g", <<Leaf("note", "n")>>),
     Node("versioning", NoString, <<Leaf("lastUpdated", "1")>>),
     Node("versioning", NoString, <<Leaf("lastUpdated", "1"), Leaf("lastUpdated", "2")>>)}

XmlDocs ==
    {Node("metadata", NoString, children) :
        children \in UNION {[1..n -> XmlElements] : n \in 0..MaxChildren}}

XmlPaths == {<<"groupId">>, <<"artifactId">>, <<"versioning">>, <<"versioning", "lastUpdated">>}

XmlInit ==
    /\ \E doc \in XmlDocs, path \in XmlPaths :
         xmlcheck = [pc |-> "start", doc |-> doc, path |-> path,
                     out |-> XmlReturned(NoElement, NoString)]
    /\ repo = [gav \in Gavs |-> Absent]
    /\ hashOrder = BuildOrder
    /\ Idle
    /\ NoEval
    /\ NoRetrieval
    /\ OtherHarnessesUnused("xmlcheck")

CallElement ==
    /\ xmlcheck.pc = "start"
    /\ xmlcheck' = [xmlcheck EXCEPT !.pc = "element",
                                    !.out = XML_element(xmlcheck.doc, xmlcheck.path)]
    /\ UNCHANGED <<retrievalVars, repo, hashOrder, buildVars, evalVars, roundtrip, eqcheck, mdcheck, filesVars>>

CallValue ==
    /\ xmlcheck.pc = "start"
    /\ xmlcheck' = [xmlcheck EXCEPT !.pc = "value",
                                    !.out = XML_value(xmlcheck.doc, xmlcheck.path)]
    /\ UNCHANGED <<retrievalVars, repo, hashOrder, buildVars, evalVars, roundtrip, eqcheck, mdcheck, filesVars>>

XmlNext == CallElement \/ CallValue

SpecXml == XmlInit /\ [][XmlNext]_vars

----------------------------------------------------------------------------
(* Metadatas over the maven-metadata.xml documents of one project *)

MaxDocs == 2

VersionLists == {<<>>, <<"1">>, <<"1", "2">>, <<"3", "2">>}

Versioning(lastUpdated, versions) ==
    Node("versioning", NoString,
         <<Leaf("lastUpdated", lastUpdated),
           Node("versions", NoString, [i \in DOMAIN versions |-> Leaf("version", versions[i])])>>)

MetadataDocs ==
    {Node("metadata", NoString, <<Leaf("groupId", "g"), Leaf("artifactId", "a"), Versioning(t, vs)>>) :
        t \in {Timestamps[i] : i \in DOMAIN Timestamps}, vs \in VersionLists}

MdInit ==
    /\ \E docs \in UNION {[1..n -> MetadataDocs] : n \in 0..MaxDocs} :
         mdcheck = [pc |-> "start", docs |-> docs, metadatas |-> <<>>, err |-> "", versions |-> <<>>]
    /\ repo = [gav \in Gavs |-> Absent]
    /\ hashOrder = BuildOrder
    /\ Idle
    /\ NoEval
    /\ NoRetrieval
    /\ OtherHarnessesUnused("mdcheck")

\* Metadatas(docs)
NewMetadatas ==
    /\ mdcheck.pc = "start"
    /\ LET self == Metadatas___init__(mdcheck.docs)
       IN  mdcheck' = [mdcheck EXCEPT !.pc = IF self.err = "" THEN "built" ELSE "raised",
                                      !.metadatas = self.list,
                                      !.err = self.err]
    /\ UNCHANGED <<retrievalVars, repo, hashOrder, buildVars, evalVars, roundtrip, eqcheck, xmlcheck, filesVars>>

\* .versions of the aggregate
ReadVersions ==
    /\ mdcheck.pc = "built"
    /\ mdcheck' = [mdcheck EXCEPT !.pc = "versions",
                                  !.versions = Metadatas_versions(mdcheck.metadatas)]
    /\ UNCHANGED <<retrievalVars, repo, hashOrder, buildVars, evalVars, roundtrip, eqcheck, xmlcheck, filesVars>>

MdNext == NewMetadatas \/ ReadVersions

SpecMd == MdInit /\ [][MdNext]_vars

----------------------------------------------------------------------------
(* updater.FilesCollection.  Its three sets hold Artifact and Component       *)
(* values, which compare by their fields.  The state of a collection during   *)
(* a call is [artifacts, current, components, err]: err is "" or the          *)
(* exception that ended the call.                                             *)

Component_of(artifact) ==
    [groupId |-> artifact.groupId, artifactId |-> artifact.artifactId,
     version |-> artifact.version]

\* component.artifact(classifier, packaging)
Component_artifact(component, classifier, packaging) ==
    [groupId |-> component.groupId, artifactId |-> component.artifactId,
     version |-> component.version, classifier |-> classifier, packaging |-> packaging]

\* project.versions(): the release versions of the aggregated metadata
Project_versions(metadata) ==
    LET self == Metadatas___init__(metadata)
    IN  IF self.err # "" THEN [list |-> <<>>, err |-> self.err]
        ELSE [list |-> SelectSeq(Metadatas_versions(self.list),
                                 LAMBDA v : ~endswith_SNAPSHOT(v)),
              err |-> ""]

\* Model(artifact.component.pom()): resolving the POM may fail; the constructor
\* takes (env, pom) and is given one argument
Model_of_pom(component, dk) ==
    IF component.version \notin dk.poms THEN NotFound ELSE TypeError

_register_artifact(st, artifact, current_version) ==
    IF artifact \in st.artifacts THEN st
    ELSE [st EXCEPT !.artifacts = @ \cup {artifact},
                    !.current = IF current_version THEN @ \cup {artifact} ELSE @]

_register_dependencies(st, artifact, current_version, dk) ==
    IF Component_of(artifact) \in st.components THEN st
    ELSE [st EXCEPT !.components = @ \cup {Component_of(artifact)},
                    !.err = Model_of_pom(Component_of(artifact), dk)]

RECURSIVE add_artifact(_, _, _, _), add_previous(_, _, _, _)

\* the loop over project.versions(), from the version list still to do
add_previous(st, versions, artifact, dk) ==
    IF versions = <<>> \/ st.err # "" THEN st
    ELSE LET component == [Component_of(artifact) EXCEPT !.version = Head(versions)]
             previous_artifact ==
                 Component_artifact(component, artifact.classifier, artifact.packaging)
         IN  add_previous(add_artifact(st, previous_artifact, FALSE, dk),
                          Tail(versions), artifact, dk)

add_artifact(st, artifact, current_version, dk) ==
    IF artifact \in st.artifacts THEN st
    ELSE LET registered == _register_artifact(st, artifact, current_version)
             withDeps == _register_dependencies(registered, artifact, current_version, dk)
             versions == Project_versions(dk.metadata)
         IN  IF withDeps.err # "" THEN withDeps
             ELSE IF versions.err # "" THEN [withDeps EXCEPT !.err = versions.err]
             ELSE add_previous(withDeps, versions.list, artifact, dk)

\* the key of the <plugin> entry of an artifact
Plugin(artifact) ==
    <<artifact.groupId, artifact.artifactId, artifact.classifier, artifact.packaging>>

\* generate_xml: _populate_plugin for the artifacts of each plugin key
generate_xml(st) ==
    IF \E a \in st.artifacts :
          ~(Cardinality({b \in st.artifacts : Plugin(b) = Plugin(a) /\ b \in st.current}) <= 1)
    THEN AssertionError
    ELSE ""

----------------------------------------------------------------------------
(* A FilesCollection, and the calls a program makes on it *)

FilesArtifacts ==
    {Component_artifact(Component_of(Artifact(v)), c, DEFAULT_PACKAGING) :
        v \in {Release, Release2}, c \in {DEFAULT_CLASSIFIER, "sources"}}

MetadataDoc(versions) ==
    Node("metadata", NoString,
         <<Leaf("groupId", "g"), Leaf("artifactId", "a"), Versioning(Timestamps[1], versions)>>)

\* the maven-metadata.xml documents found for the project
DiskMetadata ==
    {<<>>, <<MetadataDoc(<<Release>>)>>, <<MetadataDoc(<<Release, Snapshot, Release2>>)>>,
     <<MetadataDoc(<<Release>>), MetadataDoc(<<Release2>>)>>}

FilesInit ==
    /\ artifacts = {}
    /\ current = {}
    /\ components = {}
    /\ fcall = [fn |-> "none", artifact |-> NoArtifact, current_version |-> FALSE, err |-> ""]
    /\ disk \in [metadata : DiskMetadata, poms : SUBSET {Release, Release2}]
    /\ repo = [gav \in Gavs |-> Absent]
    /\ hashOrder = BuildOrder
    /\ Idle
    /\ NoEval
    /\ NoRetrieval
    /\ OtherHarnessesUnused("files")

\* fc.add_artifact(artifact, current_version), to its return or its exception
AddArtifact(artifact, current_version) ==
    /\ LET st == add_artifact([artifacts |-> artifacts, current |-> current,
                               components |-> components, err |-> ""],
                              artifact, current_version, disk)
       IN  /\ artifacts' = st.artifacts
           /\ current' = st.current
           /\ components' = st.components
           /\ fcall' = [fn |-> "add_artifact", artifact |-> artifact,
                        current_version |-> current_version, err |-> st.err]
    /\ UNCHANGED <<disk, retrievalVars, repo, hashOrder, buildVars, evalVars, roundtrip, eqcheck, xmlcheck, mdcheck>>

\* fc.generate_xml(template)
GenerateXml ==
    /\ fcall' = [fn |-> "generate_xml", artifact |-> NoArtifact, current_version |-> FALSE,
                 err |-> generate_xml([artifacts |-> artifacts, current |-> current])]
    /\ UNCHANGED <<artifacts, current, components, disk>>
    /\ UNCHANGED <<retrievalVars, repo, hashOrder, buildVars, evalVars, roundtrip, eqcheck, xmlcheck, mdcheck>>

FilesNext ==
    \/ \E artifact \in FilesArtifacts, current_version \in BOOLEAN :
          AddArtifact(artifact, current_version)
    \/ GenerateXml

SpecFiles == FilesInit /\ [][FilesNext]_vars

----------------------------------------------------------------------------
(* What the claims speak of *)

\* the call for the child component has ended, with a Model or with an exception
ChildDone == pc = "done" /\ target = ChildGav

\* the constructor returned: a Model was built
Built == result = "ok"

\* the string has no ${name} whose name is a key of the dict p
Interpolated(s, p) == props_referenced(s) \cap Keys(p) = {}

KeyFooBar == <<"foo", "bar", DEFAULT_CLASSIFIER, DEFAULT_PACKAGING>>

KeyLibX == <<"lib", "x", DEFAULT_CLASSIFIER, DEFAULT_PACKAGING>>

\* a properties section without a reference cycle
AcyclicProperties(p) ==
    p.properties \in { <<>>, << <<"p", V("2")>> >>, << <<"p", <<Ref("u")>>>> >> }

\* the message of the ValueError of the injection loop of Model.__init__
UnresolvedVersion == "ValueError: No version available for dependency"

\* the parent-cycle failure of the specification; src/maven.py raises no such error
ParentCycle == "parent-cycle"

\* the descriptor is on its own parent chain
OnOwnParentChain ==
    \/ pom.parent = ChildGav
    \/ /\ pom.parent = ParentGav
       /\ repo[ParentGav].kind = "POM"
       /\ repo[ParentGav].parent = ChildGav

----------------------------------------------------------------------------
(* The claims *)

C2_AsClaimed ==
    (/\ ChildDone
     /\ pom.parent = NoParent /\ pom.profiles = <<>> /\ AcyclicProperties(pom)
     /\ pom.managed = <<FooBar(V("1"))>> /\ pom.dependencies = <<FooBar(None)>>)
    => /\ Built
       /\ Has(deps, KeyFooBar)
       /\ Get(deps, KeyFooBar).version = V("1")

\* C3, as claimed: a direct dependency that still has no version when no dep_mgmt
\* entry has its key makes the build fail with the unresolved-version error, and
\* that error is raised in no other situation.
C3_AsClaimed ==
    /\ (/\ ChildDone
        /\ pom.parent = NoParent /\ pom.profiles = <<>> /\ AcyclicProperties(pom)
        /\ pom.managed = <<>> /\ pom.dependencies = <<LibX(None)>>)
       => result = UnresolvedVersion
    /\ (ChildDone /\ result = UnresolvedVersion)
       => \E i \in DOMAIN pom.dependencies : IsNone(pom.dependencies[i].version)

\* C4, as claimed: interpolation runs after inheritance: the parent manages foo:bar
\* at ${p} and sets p=1, the child declares foo:bar without a version; the managed
\* and the injected version are the child's p (2) if the child sets p, and the
\* parent's p (1) if it does not.
C4_AsClaimed ==
    (/\ ChildDone
     /\ pom.parent = ParentGav /\ repo[ParentGav].kind = "POM"
     /\ repo[ParentGav].parent = NoParent
     /\ pom.profiles = <<>> /\ pom.managed = <<>> /\ pom.dependencies = <<FooBar(None)>>
     /\ pom.properties \in { <<>>, << <<"p", V("2")>> >> })
    => /\ Built
       /\ Has(dep_mgmt, KeyFooBar) /\ Has(deps, KeyFooBar)
       /\ Get(dep_mgmt, KeyFooBar).version = (IF pom.properties = <<>> THEN V("1") ELSE V("2"))
       /\ Get(deps, KeyFooBar).version = Get(dep_mgmt, KeyFooBar).version

ImportsBom(p) ==
    \E i \in DOMAIN p.managed :
        /\ dependency(p.managed[i]).type = "pom"
        /\ dependency(p.managed[i]).scope = "import"
        /\ <<p.managed[i].groupId, p.managed[i].artifactId>> = <<BomGav[1], BomGav[2]>>

\* C6, as claimed: the BOM's descriptor is looked up for a dep_mgmt entry if and
\* only if the entry has type pom and scope import (the descriptor has no parent
\* and no reference cycle, so that nothing else ends the build or looks anything up).
C6_AsClaimed ==
    (/\ ChildDone
     /\ pom.parent = NoParent /\ pom.profiles = <<>> /\ AcyclicProperties(pom)
     /\ pom.dependencies = <<>>)
    => ((\E i \in DOMAIN lookups : lookups[i] = BomGav) <=> ImportsBom(pom))

C8_AsClaimed ==
    (ChildDone /\ OnOwnParentChain) => result = ParentCycle

\* C9, as claimed: properties with a reference cycle (x=${y}, y=${x}) make the build
\* fail with the interpolation-cycle error.
C9_AsClaimed ==
    (/\ ChildDone
     /\ pom.parent = NoParent /\ pom.profiles = <<>>
     /\ pom.properties = << <<"x", <<Ref("y")>>>>, <<"y", <<Ref("x")>>>> >>)
    => result = InterpolationCycle

----------------------------------------------------------------------------
(* The evaluation the specification describes (section 4.6, phase D), to state   *)
(* what a call of the evaluator is claimed to return                             *)

RECURSIVE Expansion(_, _, _)
\* the expression with every reference to a key of p expanded, recursively, and
\* every reference to another name left as it is; a reference to a name that is
\* being expanded (on `chain`) becomes the token <<"cycle", name>>
Expansion(expression, p, chain) ==
    IF expression = <<>> THEN <<>>
    ELSE LET t == Head(expression)
             rest == Expansion(Tail(expression), p, chain)
         IN  IF t[1] # "ref" \/ ~Has(p, t[2]) THEN <<t>> \o rest
             ELSE IF t[2] \in chain THEN << <<"cycle", t[2]>> >> \o rest
                  ELSE Expansion(Get(p, t[2]), p, chain \cup {t[2]}) \o rest

\* no reference cycle is met when the expression is expanded
Acyclic(expression, p) ==
    \A i \in DOMAIN Expansion(expression, p, {}) : Expansion(expression, p, {})[i][1] # "cycle"

RECURSIVE Expanded(_, _)
\* the keys of p that expanding the expression expands, one entry per expansion
\* (the expression has no cycle)
Expanded(expression, p) ==
    IF expression = <<>> THEN <<>>
    ELSE LET t == Head(expression)
         IN  IF t[1] # "ref" \/ ~Has(p, t[2]) THEN Expanded(Tail(expression), p)
             ELSE <<t[2]>> \o Expanded(Get(p, t[2]), p) \o Expanded(Tail(expression), p)

\* no key of p is expanded twice
EachOnce(expression, p) ==
    \A i, j \in DOMAIN Expanded(expression, p) :
        Expanded(expression, p)[i] = Expanded(expression, p)[j] => i = j

\* the expression the last call evaluated: ${name} for _propvalue(name)
CalledOn == IF ecall.fn = "_propvalue" THEN <<Ref(ecall.name)>> ELSE ecall.expr

\* C10, as claimed: a reference to a name that is no key of props is left verbatim
\* and undefined references alone never make evaluation fail: a call on props
\* without a reference cycle, in which no defined property is expanded twice,
\* returns the expansion with the undefined references left in it (_propvalue of an
\* undefined name returns None), however often an undefined name is referenced.
C10_AsClaimed ==
    (/\ ecall.fn # "none"
     /\ Acyclic(CalledOn, ecall.props)
     /\ EachOnce(CalledOn, ecall.props))
    => /\ eout.err = ""
       /\ eout.val = (IF ecall.fn = "_propvalue" /\ ~Has(ecall.props, ecall.name)
                      THEN None
                      ELSE Expansion(CalledOn, ecall.props, {}))

\* the <activation> of the profile has an activeByDefault child with text "true"
ActiveByDefaultTrue(profile) ==
    /\ profile.hasActivation
    /\ \E i \in DOMAIN profile.activation : profile.activation[i] = <<"activeByDefault", "true">>

\* the Dependency objects of a sequence of <dependency> elements
DependenciesOf(els) == { dependency(els[i]) : i \in DOMAIN els }

\* what the descriptor itself and its profiles with ActiveByDefaultTrue declare
FromPomOrActive(p, managed) ==
    DependenciesOf(IF managed THEN p.managed ELSE p.dependencies)
    \cup UNION { DependenciesOf(IF managed THEN p.profiles[i].managed
                                           ELSE p.profiles[i].dependencies) :
                   i \in { j \in DOMAIN p.profiles : ActiveByDefaultTrue(p.profiles[j]) } }

\* the <<name, text>> children of the <properties> of the profiles without
\* ActiveByDefaultTrue
InactiveProperties(p) ==
    UNION { { p.profiles[i].properties[k] : k \in DOMAIN p.profiles[i].properties } :
              i \in { j \in DOMAIN p.profiles : ~ActiveByDefaultTrue(p.profiles[j]) } }

\* profile injection is over for the descriptor of the child
ProfilesInjected == target = ChildGav /\ pc \in {"C", "done"}

\* C11: a profile is active exactly when its <activation> has an activeByDefault
\* child with text "true" (no <activation>, another text, or only jdk / os /
\* property / file conditions never activate); from profile injection on, deps and
\* dep_mgmt hold nothing but what the descriptor and its active profiles declare,
\* props holds no property of an inactive profile, and a dependency only an active
\* profile declares is in deps and dep_mgmt.
C11_InactiveProfilesIgnored ==
    ProfilesInjected =>
        /\ \A i \in DOMAIN pom.profiles :
              _is_active_profile(pom.profiles[i]) <=> ActiveByDefaultTrue(pom.profiles[i])
        /\ \A i \in DOMAIN deps : deps[i][2] \in FromPomOrActive(pom, FALSE)
        /\ \A i \in DOMAIN dep_mgmt : dep_mgmt[i][2] \in FromPomOrActive(pom, TRUE)
        /\ \A i \in DOMAIN props :
              props[i] \in InactiveProperties(pom)
                  => \E j \in DOMAIN pom.properties : pom.properties[j] = props[i]
        /\ \A d \in FromPomOrActive(pom, FALSE) : Has(deps, GACT(d))
        /\ \A d \in FromPomOrActive(pom, TRUE) : Has(dep_mgmt, GACT(d))

\* an inactive profile (foo:bar:8) precedes an active one (foo:bar:9), and only the
\* active one's dependency has been merged
C11_Witness ==
    /\ ProfilesInjected /\ pc = "C"
    /\ Len(pom.profiles) = 2 /\ pom.dependencies = <<>> /\ pom.managed = <<>>
    /\ ~ActiveByDefaultTrue(pom.profiles[1]) /\ ActiveByDefaultTrue(pom.profiles[2])
    /\ Has(deps, KeyFooBar) /\ Get(deps, KeyFooBar).version = V("9")
    /\ Has(dep_mgmt, KeyFooBar) /\ Get(dep_mgmt, KeyFooBar).version = V("9")

\* C12, as claimed: each child of the <properties> of an active profile is merged
\* into props as (tag -> text) with first-wins: with the one profile active by
\* default setting p=9 and a descriptor that sets no property, props has the key p
\* with value 9 from profile injection on, and a dependency declared at ${p} is
\* built at version 9.
C12_AsClaimed ==
    (/\ ProfilesInjected
     /\ pom.properties = <<>> /\ pom.parent = NoParent
     /\ pom.profiles = <<ProfileWith(TRUE, << <<"activeByDefault", "true">> >>)>>)
    => /\ Has(props, "p")
       /\ Get(props, "p") = V("9")
       /\ (pc = "done" /\ pom.dependencies = <<FooBar(<<Ref("p")>>)>>)
             => (Built /\ Get(deps, KeyFooBar).version = V("9"))

----------------------------------------------------------------------------
(* Retrieval: the claims *)

\* the roots resolve may take the file from, in the order of the documentation
Sources == <<repo_cache>> \o local_repos

\* the positions in Sources of the roots that held the artifact when the call began
SourcesWith(p) ==
    { i \in DOMAIN Sources : exists(rfs0[p], Path(Sources[i], rart[p])) }

Least(S) == CHOOSE i \in S : \A j \in S : i <= j

InDownload == {"download", "remote", "assert", "open", "write"}

DownloadErrors == {SnapshotUnsupported, NotFound, MissingSchema, AssertionError, FileNotFoundError}

\* C13: resolve returns the path under the first of the cache and the read-only
\* repositories, in list order, that contains the file, without a remote request;
\* the downloader runs only when none of them contains it, and then the outcome is
\* the downloader's.
C13_FirstLocalSource ==
    /\ (rpc[1] = "done" /\ SourcesWith(1) # {})
         => /\ rret[1] = Returned(Path(Sources[Least(SourcesWith(1))], rart[1]))
            /\ rcontacted[1] = <<>>
            /\ fs = rfs0[1]
    /\ rpc[1] \in InDownload => SourcesWith(1) = {}
    /\ (rpc[1] = "done" /\ SourcesWith(1) = {})
         => \/ rret[1].err \in DownloadErrors
            \/ rret[1] = Returned(cached_path(rart[1])) /\ exists(fs, cached_path(rart[1]))

\* the file is in both read-only repositories and not in the cache: the path under
\* the repository listed first is returned
C13_Witness ==
    /\ rpc[1] = "done" /\ local_repos = <<"nexus2", "nexus1">>
    /\ SourcesWith(1) = {2, 3}
    /\ rret[1] = Returned(Path("nexus2", Artifact(Release)))

\* the URLs of the configured remotes for the artifact of p, in configured order
ConfiguredUrls(p) == [i \in DOMAIN remote_repos |-> <<remote_repos[i][2], rart[p]>>]

\* the positions of the configured remotes that answer 200
Answering200 == { i \in DOMAIN remote_repos : server[remote_repos[i][2]] = 200 }

\* C14, as claimed: on a local miss of a release the configured remote URLs are
\* requested in configured order; the body of the first one answering 200 is
\* written to the cached path, which is returned, and no later remote is contacted;
\* if none answers 200 all were contacted, the retrieval failure is raised and the
\* files are as they were.
C14_AsClaimed ==
    (rpc[1] = "done" /\ SourcesWith(1) = {} /\ rart[1].version = Release)
    => IF Answering200 # {}
       THEN /\ rret[1] = Returned(cached_path(rart[1]))
            /\ fs[cached_path(rart[1])] = remote_repos[Least(Answering200)][2]
            /\ rcontacted[1] = SubSeq(ConfiguredUrls(1), 1, Least(Answering200))
       ELSE /\ rret[1] = Raised(NotFound)
            /\ rcontacted[1] = ConfiguredUrls(1)
            /\ fs = rfs0[1]

MissedLocally(p) == rpc[p] # "idle" /\ SourcesWith(p) = {}

\* C19, as claimed: two resolves of the same artifact, absent from the cache and
\* from every read-only repository, with the one configured remote answering 200
\* and the artifact's cache directory present: the two callers never have the cached
\* path open for writing at the same time, and each call that ends returns the
\* cached path.
C19_AsClaimed ==
    (/\ MissedLocally(1) /\ MissedLocally(2)
     /\ rart[1] = Artifact(Release) /\ rart[2] = Artifact(Release)
     /\ remote_repos = << <<"https://a", "https://a">> >> /\ server["https://a"] = 200
     /\ Artifact(Release) \in dirs)
    => /\ ~(rpc[1] = "write" /\ rpc[2] = "write")
       /\ \A p \in Procs :
            rpc[p] = "done" => rret[p] = Returned(cached_path(Artifact(Release)))

----------------------------------------------------------------------------
(* The enumerator: the claims *)

RuntimeScopes == {"compile", "runtime"}

InRuntimeScope(dep) == dep.scope \in RuntimeScopes

\* C16, as claimed: the runtime view the enumerator returns for a component is the
\* entries of its built model's deps whose scope is compile or runtime: for a
\* descriptor that declares foo:bar:1 (compile) and lib:x:1 (test), a model is built
\* and the view is foo:bar:1 alone.
C16_AsClaimed ==
    (/\ ChildDone
     /\ pom.parent = NoParent /\ pom.profiles = <<>> /\ pom.properties = <<>>
     /\ pom.managed = <<>> /\ pom.dependencies = <<FooBar(V("1")), LibXTest>>)
    => /\ Built
       /\ SimpleResolver_dependencies(M(deps, dep_mgmt, props, ""))
            = SelectSeq(Values(deps), InRuntimeScope)
       /\ SimpleResolver_dependencies(M(deps, dep_mgmt, props, ""))
            = <<dependency(FooBar(V("1")))>>

\* the (groupId, artifactId, version) of the entries of a list of dependencies
Selected(list) ==
    { <<list[i].groupId, list[i].artifactId, list[i].version>> : i \in DOMAIN list }

\* C17, as claimed: the enumeration is breadth-first with nearest-wins: g:child:1
\* depends on g:parent:1 and foo:bar:1, and g:parent:1 depends on foo:bar:2 and
\* lib:x:1; the result has one version of every reachable project: g:parent:1,
\* foo:bar:1 (depth 1 wins over foo:bar:2 at depth 2) and lib:x:1.
C17_AsClaimed ==
    (/\ ChildDone
     /\ pom.parent = NoParent /\ pom.profiles = <<>> /\ pom.properties = <<>>
     /\ pom.managed = <<>> /\ pom.dependencies = <<ParentAsDependency, FooBar(V("1"))>>
     /\ repo[ParentGav].kind = "POM"
     /\ repo[ParentGav].dependencies = <<FooBar(V("2")), LibX(V("1"))>>)
    => /\ Built
       /\ Selected(SimpleResolver_dependencies(M(deps, dep_mgmt, props, "")))
            = { <<"g", "parent", V("1")>>, <<"foo", "bar", V("1")>>, <<"lib", "x", V("1")>> }

----------------------------------------------------------------------------
(* Coordinates: the claim *)

\* the coordinate with the constructors' defaults: no classifier is "", no
\* packaging is jar
Normalized(c) ==
    [groupId |-> c.groupId, artifactId |-> c.artifactId, version |-> c.version,
     classifier |-> IF Given(c.classifier) THEN c.classifier ELSE DEFAULT_CLASSIFIER,
     packaging |-> IF Given(c.packaging) THEN c.packaging ELSE DEFAULT_PACKAGING]

\* C20, as claimed: a coordinate rendered to g:a[:p[:c]][:v][:s] and parsed back is
\* the original coordinate (its group, artifact, version, classifier and packaging,
\* with the defaults for an absent classifier and packaging), whichever of
\* packaging, classifier, version and scope are given; and two coordinates with the
\* same rendering are the same coordinate.
C20_AsClaimed ==
    /\ roundtrip.pc = "parsed" => roundtrip.parsed = Normalized(roundtrip.coord)
    /\ (roundtrip.pc \in {"rendered", "parsed"}
        /\ roundtrip.rendered = roundtrip.renderedOther)
         => roundtrip.coord = roundtrip.other

----------------------------------------------------------------------------
(* Coordinate values: the claim *)

\* the fields that identify a value of the class
IdentityFields(class) ==
    CASE class = "Project" -> {"artifactId"}
      [] class = "Component" -> {"artifactId", "version"}
      [] class = "Artifact" -> {"artifactId", "version", "classifier", "packaging"}
      [] class = "Dependency" -> {"artifactId", "version", "classifier", "packaging", "scope"}

SameIdentityFields ==
    \A f \in IdentityFields(eqcheck.x.class) : eqcheck.fx[f] = eqcheck.fy[f]

\* C21: two values of the same type (Project, Component, Artifact, Dependency)
\* built from equal field values compare equal and have equal hashes, whatever
\* the objects and the Environment they come from; two values that differ in an
\* identity field compare unequal.
C21_AsClaimed ==
    eqcheck.pc = "compared" =>
        IF SameIdentityFields
        THEN eqcheck.eq /\ eqcheck.hx = eqcheck.hy
        ELSE ~eqcheck.eq

----------------------------------------------------------------------------
(* XML: the claim *)

Matches == XML_elements(xmlcheck.doc, xmlcheck.path)

\* C23: value(path) returns the text of the matching element whenever exactly
\* one element matches the path, also when that element is a leaf with text and
\* no children; it returns None only when no element matches (or the one match
\* has no text); element(path) fails when more than one element matches.
C23_AsClaimed ==
    /\ xmlcheck.pc = "value" /\ Len(Matches) = 1
         => xmlcheck.out = XmlReturned(NoElement, Matches[1].text)
    /\ xmlcheck.pc = "value" /\ xmlcheck.out = XmlReturned(NoElement, NoString)
         => Matches = <<>> \/ (Len(Matches) = 1 /\ Matches[1].text = NoString)
    /\ xmlcheck.pc = "element" /\ Len(Matches) > 1
         => xmlcheck.out = XmlRaised(AssertionError)

----------------------------------------------------------------------------
(* Metadatas: the claim *)

\* the text of <lastUpdated> in the document
LastUpdatedText(doc) == XML_values(doc, <<"versioning", "lastUpdated">>)[1]

\* the orders of the documents, as sequences of indices, that ascend in lastUpdated
AscendingOrders(docs) ==
    {order \in [DOMAIN docs -> DOMAIN docs] :
        /\ \A i, j \in DOMAIN docs : i # j => order[i] # order[j]
        /\ \A i, j \in DOMAIN docs :
             i < j => ts2dt(LastUpdatedText(docs[order[i]])) <= ts2dt(LastUpdatedText(docs[order[j]]))}

\* C22: for every collection of documents, in any order, Metadatas is built and
\* its versions list is the concatenation of the documents' versions lists in
\* lastUpdated-ascending order of the documents, nothing dropped or deduplicated.
C22_AsClaimed ==
    /\ mdcheck.pc # "raised"
    /\ mdcheck.pc = "versions" =>
         \E order \in AscendingOrders(mdcheck.docs) :
            mdcheck.versions =
                Metadatas_versions([i \in DOMAIN mdcheck.docs |-> mdcheck.docs[order[i]]])

----------------------------------------------------------------------------
(* The evaluator: the diamond *)

\* C27: the interpolation-cycle error is raised only when a property is reached
\* again on its own expansion chain: a call on props without a reference cycle
\* does not raise it, and on the diamond a=${b}${c}, b=${d}, c=${d}, d=1 the
\* value of a evaluates to 11.
C27_AsClaimed ==
    /\ ecall.fn # "none" /\ Acyclic(CalledOn, ecall.props)
         => eout.err # InterpolationCycle
    /\ ecall.fn = "_propvalue" /\ ecall.name = "a" /\ ecall.props = Diamond
         => eout = [val |-> <<Lit("1"), Lit("1")>>, err |-> ""]

----------------------------------------------------------------------------
(* Retrieval: resolving again after a download *)

\* the file at the cached path of the artifact holds a body that a remote served:
\* a resolve of the artifact has succeeded through the downloader
Downloaded(files, artifact) == files[cached_path(artifact)] \in WithScheme

\* C28: once a resolve of an artifact has succeeded through the downloader, every
\* later resolve of that artifact, whatever was resolved in between, contacts no
\* remote, does not go past the cache check, and returns the cached path.
C28_CachedAfterDownload ==
    (rpc[1] # "idle" /\ Downloaded(rfs0[1], rart[1]))
    => /\ rcontacted[1] = <<>>
       /\ rpc[1] \in {"cache", "done"}
       /\ rpc[1] = "done" => rret[1] = Returned(cached_path(rart[1]))
       /\ fs = rfs0[1]

\* the first release is resolved again after it and the second release were
\* downloaded, from the second of two configured remotes
C28_Witness ==
    /\ rpc[1] = "done"
    /\ rart[1] = Artifact(Release)
    /\ Len(remote_repos) = 2
    /\ rfs0[1][cached_path(Artifact(Release))] = remote_repos[2][1]
    /\ rfs0[1][cached_path(Artifact(Release2))] = remote_repos[2][1]
    /\ rret[1] = Returned(cached_path(Artifact(Release)))

----------------------------------------------------------------------------
(* FilesCollection: the claims *)

\* C29: after any sequence of add_artifact calls at most one artifact of each
\* plug-in key (groupId, artifactId, classifier, packaging) is in `current`, and
\* the assertion of _populate_plugin never fails.
C29_AsClaimed ==
    /\ \A a \in current, b \in current : Plugin(a) = Plugin(b) => a = b
    /\ fcall.fn = "generate_xml" => fcall.err = ""

\* C30: after add_artifact(x, current_version=True) has returned, x is in
\* `artifacts` and in `current`, whatever was added before.
C30_AsClaimed ==
    (fcall.fn = "add_artifact" /\ fcall.current_version /\ fcall.err = "")
    => fcall.artifact \in artifacts /\ fcall.artifact \in current

----------------------------------------------------------------------------
(* The evaluator: the order in which a set of references is iterated *)

\* the orders in which the names of the props in use can be iterated
OrdersOfNames == IF Len(hashOrder) = Cardinality(EvalNames) THEN EvalOrders ELSE DiamondOrders

\* the last call, made again on the same props with the sets iterated in the order o
CallAgain(o) ==
    IF ecall.fn = "_propvalue"
    THEN _propvalue(ecall.name, ecall.props, NoVisited, o)
    ELSE _evaluate(ecall.expr, ecall.props, NoVisited, o)

----------------------------------------------------------------------------
(* The builder: its phases *)

AllPhases == <<"A", "B", "C", "D", "E", "F", "G">>

\* C25: a build enters its phases once each in the order A (seed), B (profile
\* injection), C (parent inheritance), D (property interpolation), E (version
\* interpolation), F (import), G (injection): the phases entered are a prefix of
\* that list, and all seven are run when the build returns a model, which it does
\* for a descriptor with no parent, properties, dependencies or profiles.
C25_AsClaimed ==
    /\ phases = SubSeq(AllPhases, 1, Len(phases))
    /\ Built => phases = AllPhases
    /\ (/\ ChildDone
        /\ pom = Pom(NoParent, <<>>, <<>>, <<>>, <<>>))
       => Built /\ phases = AllPhases

----------------------------------------------------------------------------
(* The builder: termination *)

\* the descriptor imports itself as a BOM
ImportsItself(p) ==
    \E i \in DOMAIN p.managed :
        /\ dependency(p.managed[i]).type = "pom"
        /\ dependency(p.managed[i]).scope = "import"
        /\ <<p.managed[i].groupId, p.managed[i].artifactId, "1">> = target

====
